---- MODULE Spec2Model ----
(***************************************************************************)
(* A model of the gopos item service (main.go, read here as                *)
(* src/unnamed/part_001) and of its dockertest harness                     *)
(* (src/LocalTestContainers.go, src/main_test.go).                         *)
(*                                                                         *)
(* Spec        : the HTTP handlers over the items table.  Every handler    *)
(*               issues exactly one SQL statement; gin runs each request   *)
(*               in its own goroutine, so a request is in flight from its  *)
(*               arrival until its handler runs, and the handlers of two   *)
(*               connections interleave freely.                            *)
(* HarnessSpec : TestMain of the integration tests: the containers are     *)
(*               brought up by CreateLocalTestContainer, the health        *)
(*               endpoint is polled, the tests run, Close tears down.      *)
(*                                                                         *)
(* The data store is taken to be healthy: a statement fails only for a     *)
(* reason its own arguments give (a path id that is no integer).  The      *)
(* columns name and price are taken to hold every value the Go Item can    *)
(* carry; the schema itself lives in db/migrations.                        *)
(***************************************************************************)
EXTENDS Integers, Sequences, FiniteSets, TLC

\* ------------------------------------------------------------------ bounds

\* The number of rows the model lets POST create (caps items_id_seq).
MaxId == 2

\* The number of attempts pool.Retry makes before its MaxWait has passed (the
\* code bounds it by time, with exponential backoff).
MaxRetry == 2

\* ------------------------------------------------------- program constants

\* limit := 30
limit == 30

\* ------------------------------------------------------------- HTTP statuses

StatusOK == 200
StatusCreated == 201
StatusNoContent == 204
StatusBadRequest == 400
StatusNotFound == 404
StatusInternalServerError == 500

\* ------------------------------------------------------------------- values

\* Two client connections, each served by its own goroutine.
Conns == {"c1", "c2"}

Other(s) == CHOOSE t \in Conns : t # s

\* type Item struct { ID int; Name string; Price int }
Item(id, name, price) == [ID |-> id, Name |-> name, Price |-> price]

\* var item Item: Go's zero value.
ZeroItem == Item(0, "", 0)

\* A request body as the client wrote it: whether it is a JSON object at all,
\* the keys it carries, their values, and the JSON token of "price" ("int" an
\* integer literal, "string" a quoted string).
JsonBody(syntax, fields, id, name, price, priceTok) ==
    [syntax |-> syntax, fields |-> fields, id |-> id, name |-> name,
     price |-> price, priceTok |-> priceTok]

NoBody == JsonBody(FALSE, {}, 0, "", 0, "none")

WellFormed ==
    { JsonBody(TRUE, {"name", "price"}, 0, "Widget", 100, "int"),
      JsonBody(TRUE, {"name", "price"}, 0, "Widget2", 150, "int") }

\* The bodies a client sends with POST: the well-formed ones, one without a
\* name, one whose price is a string, and none at all.
PostBodies ==
    WellFormed \cup
    { JsonBody(TRUE, {"price"}, 0, "", 100, "int"),
      JsonBody(TRUE, {"name", "price"}, 0, "Widget", 0, "string"),
      NoBody }

\* The bodies a client sends with PUT: the well-formed ones, one that also
\* carries an id, and none at all.
PutBodies ==
    WellFormed \cup
    { JsonBody(TRUE, {"id", "name", "price"}, 1, "Widget", 100, "int"),
      NoBody }

\* The :id path parameters a client sends.
PathIds == {"1", "2", "abc"}

\* A binding that loses the price (the field's json tag misspelt).
ShouldBindJSONDropsPrice(body) ==
    IF ~body.syntax
    THEN [err |-> TRUE, item |-> ZeroItem]
    ELSE [err |-> FALSE,
          item |-> Item(IF "id" \in body.fields THEN body.id ELSE 0,
                        IF "name" \in body.fields THEN body.name ELSE "",
                        0)]

\* c.ShouldBindJSON(&item): encoding/json into a zero Item.  A body that is no
\* JSON object, or a price token that is no integer, is an error; a key the
\* body lacks leaves the field at its zero value (Item has no binding tags).
ShouldBindJSON(body) ==
    IF ~body.syntax
    THEN [err |-> TRUE, item |-> ZeroItem]
    ELSE IF "price" \in body.fields /\ body.priceTok # "int"
    THEN [err |-> TRUE, item |-> ZeroItem]
    ELSE [err |-> FALSE,
          item |-> Item(IF "id" \in body.fields THEN body.id ELSE 0,
                        IF "name" \in body.fields THEN body.name ELSE "",
                        IF "price" \in body.fields THEN body.price ELSE 0)]

\* The store's reading of a text parameter compared with the integer column
\* id: the integer it spells, or an error (invalid input syntax).
Int4In(text) ==
    CASE text = "1" -> [err |-> FALSE, val |-> 1]
      [] text = "2" -> [err |-> FALSE, val |-> 2]
      [] text = "3" -> [err |-> FALSE, val |-> 3]
      [] OTHER -> [err |-> TRUE, val |-> 0]

\* ------------------------------------------------------------------- state

VARIABLES
    items,      \* the items table: id -> [name, price]
    seq,        \* items_id_seq: the last id the store assigned
    req,        \* per connection: the request in flight or its response
    written,    \* history: id -> the name and price the last 201/200 carried in
    deleted,    \* history: the ids a DELETE answered 204 for
    issued,     \* history: the ids POST has answered 201 with
    race,       \* history: which handlers ran while the other was in flight
    hpc,        \* TestMain: the statement the test process is at
    tries,      \* pool.Retry: the attempts the running retry has made
    i,          \* waitForServiceToBeReady: the loop counter
    attempts,   \* history: the GET /health requests sent
    slept,      \* history: the time.Sleep(wait) calls made
    reached,    \* history: the steps of the bring-up that have succeeded
    waitErr,    \* what waitForServiceToBeReady returned
    closer,     \* which goroutine called localTestContainer.Close
    closed,     \* what Close has closed so far, in order
    exit        \* how the test process ended

api == <<items, seq, req, written, deleted, issued, race>>

harness ==
    <<hpc, tries, i, attempts, slept, reached, waitErr, closer, closed, exit>>

vars == <<api, harness>>

Row(name, price) == [name |-> name, price |-> price]

Idle ==
    [pc |-> "idle", method |-> "", path |-> "", body |-> NoBody,
     status |-> 0, kind |-> "", resp |-> ZeroItem, rows |-> 0]

NoRace == [lead |-> "none", follow |-> "none"]

Init ==
    /\ items = <<>>
    /\ seq = 0
    /\ req = [s \in Conns |-> Idle]
    /\ written = <<>>
    /\ deleted = {}
    /\ issued = {}
    /\ race = NoRace
    /\ hpc = "NewPool"
    /\ tries = 0
    /\ i = 0
    /\ attempts = 0
    /\ slept = 0
    /\ reached = {}
    /\ waitErr = "pending"
    /\ closer = "none"
    /\ closed = <<>>
    /\ exit = "running"

\* The response a handler writes: c.JSON(status, item), c.JSON(status,
\* gin.H{"error": ...}) or c.Status(status); the request body has been read.
\* rows is the number of rows the statement matched.
Respond(s, status, kind, item, rows) ==
    [req[s] EXCEPT !.pc = "done", !.body = NoBody, !.status = status,
                   !.kind = kind, !.resp = item, !.rows = rows]

\* Two requests are concurrent when the handler of one (lead) runs while the
\* other is in flight, and the other's handler (follow) is the next to run.
\* The record lasts while both responses are there to be read.
Ran(s) ==
    IF req[Other(s)].pc = "recv"
    THEN [lead |-> s, follow |-> "none"]
    ELSE IF race.lead = Other(s) /\ race.follow = "none"
            /\ req[Other(s)].pc = "done"
    THEN [lead |-> Other(s), follow |-> s]
    ELSE NoRace

\* ----------------------------------------------------------------- actions

\* router.GET/POST/PUT/DELETE: a request arrives on a connection whose last
\* response, if any, has been read.
Request(s) ==
    /\ req[s].pc \in {"idle", "done"}
    /\ \/ \E path \in PathIds : \E method \in {"GET", "DELETE"} :
            req' = [req EXCEPT ![s] =
                       [Idle EXCEPT !.pc = "recv", !.method = method,
                                    !.path = path]]
       \/ \E body \in PostBodies :
            req' = [req EXCEPT ![s] =
                       [Idle EXCEPT !.pc = "recv", !.method = "POST",
                                    !.body = body]]
       \/ \E path \in PathIds : \E body \in PutBodies :
            req' = [req EXCEPT ![s] =
                       [Idle EXCEPT !.pc = "recv", !.method = "PUT",
                                    !.path = path, !.body = body]]
    /\ race' = IF s \in {race.lead, race.follow} THEN NoRace ELSE race
    /\ UNCHANGED <<items, seq, written, deleted, issued, harness>>

\* What a handler leaves alone when it answers without touching the store.
Untouched == UNCHANGED <<items, seq, written, deleted, issued>>

Put(f, k, v) == [x \in DOMAIN f \cup {k} |-> IF x = k THEN v ELSE f[x]]

Drop(f, k) == [x \in DOMAIN f \ {k} |-> f[x]]

\* The id column's default: nextval('items_id_seq').
NextVal(last) == last + 1

\* INSERT INTO items (name, price) VALUES ($1, $2) RETURNING id
SqlInsert(tbl, last, name, price) ==
    [id |-> NextVal(last), table |-> Put(tbl, NextVal(last), Row(name, price))]

\* The UPDATE without its WHERE clause: every row is rewritten.
SqlUpdateAllRows(tbl, name, price, idText) ==
    LET p == Int4In(idText) IN
    IF p.err THEN [err |-> TRUE, rows |-> 0, table |-> tbl]
    ELSE [err |-> FALSE, rows |-> Cardinality(DOMAIN tbl),
          table |-> [x \in DOMAIN tbl |-> Row(name, price)]]

\* UPDATE items SET name = $1, price = $2 WHERE id = $3
SqlUpdate(tbl, name, price, idText) ==
    LET p == Int4In(idText) IN
    IF p.err THEN [err |-> TRUE, rows |-> 0, table |-> tbl]
    ELSE IF p.val \in DOMAIN tbl
    THEN [err |-> FALSE, rows |-> 1,
          table |-> [tbl EXCEPT ![p.val] = Row(name, price)]]
    ELSE [err |-> FALSE, rows |-> 0, table |-> tbl]

\* A DELETE that reports the row but leaves it in the table.
SqlDeleteKeepsRow(tbl, idText) ==
    LET p == Int4In(idText) IN
    IF p.err THEN [err |-> TRUE, rows |-> 0, table |-> tbl]
    ELSE IF p.val \in DOMAIN tbl
    THEN [err |-> FALSE, rows |-> 1, table |-> tbl]
    ELSE [err |-> FALSE, rows |-> 0, table |-> tbl]

\* DELETE FROM items WHERE id = $1
SqlDelete(tbl, idText) ==
    LET p == Int4In(idText) IN
    IF p.err THEN [err |-> TRUE, rows |-> 0, table |-> tbl]
    ELSE IF p.val \in DOMAIN tbl
    THEN [err |-> FALSE, rows |-> 1, table |-> Drop(tbl, p.val)]
    ELSE [err |-> FALSE, rows |-> 0, table |-> tbl]

\* SELECT id, name, price FROM items WHERE id = $1, scanned into an Item:
\* noRows is sql.ErrNoRows.
SqlSelect(tbl, idText) ==
    LET p == Int4In(idText) IN
    IF p.err THEN [err |-> TRUE, noRows |-> FALSE, item |-> ZeroItem]
    ELSE IF p.val \in DOMAIN tbl
    THEN [err |-> FALSE, noRows |-> FALSE,
          item |-> Item(p.val, tbl[p.val].name, tbl[p.val].price)]
    ELSE [err |-> TRUE, noRows |-> TRUE, item |-> ZeroItem]

\* The returned id never scanned: the item keeps the id it was bound with.
ScanSkipped(item, id) == item

\* QueryRow(...).Scan(&item.ID): the returned id lands in the bound item.
Scan(item, id) == [item EXCEPT !.ID = id]

\* The affected-row count never looked at.
NotFoundNever(rowsAffected) == FALSE

\* if err != nil || rowsAffected == 0: the statement matched no row.
NotFound(rowsAffected) == rowsAffected = 0

\* func (g *GoPOS) createItem(c *gin.Context)
createItem(s) ==
    /\ req[s].pc = "recv"
    /\ race' = Ran(s)
    /\ UNCHANGED harness
    /\ req[s].method = "POST"
    /\ LET b == ShouldBindJSON(req[s].body) IN
       IF b.err
       THEN /\ req' = [req EXCEPT ![s] =
                          Respond(s, StatusBadRequest, "error", ZeroItem, 0)]
            /\ Untouched
       ELSE /\ seq < MaxId
            /\ LET r == SqlInsert(items, seq, b.item.Name, b.item.Price)
                   item == Scan(b.item, r.id)
               IN /\ items' = r.table
                  /\ seq' = r.id
                  /\ req' = [req EXCEPT ![s] =
                                Respond(s, StatusCreated, "item", item, 1)]
                  /\ written' = Put(written, r.id,
                                    [name |-> req[s].body.name,
                                     price |-> req[s].body.price,
                                     by |-> "POST"])
                  /\ issued' = issued \cup {item.ID}
                  /\ UNCHANGED deleted

\* func (g *GoPOS) updateItem(c *gin.Context)
updateItem(s) ==
    /\ req[s].pc = "recv"
    /\ race' = Ran(s)
    /\ UNCHANGED harness
    /\ req[s].method = "PUT"
    /\ LET id == req[s].path
           b == ShouldBindJSON(req[s].body)
       IN
       IF b.err
       THEN /\ req' = [req EXCEPT ![s] =
                          Respond(s, StatusBadRequest, "error", ZeroItem, 0)]
            /\ Untouched
       ELSE LET result == SqlUpdate(items, b.item.Name, b.item.Price, id) IN
            IF result.err
            THEN /\ req' = [req EXCEPT ![s] =
                    Respond(s, StatusInternalServerError, "error", ZeroItem, 0)]
                 /\ Untouched
            ELSE IF NotFound(result.rows)
            THEN /\ req' = [req EXCEPT ![s] =
                               Respond(s, StatusNotFound, "error", ZeroItem, 0)]
                 /\ Untouched
            ELSE /\ items' = result.table
                 /\ req' = [req EXCEPT ![s] =
                               Respond(s, StatusOK, "item", b.item, result.rows)]
                 /\ written' = Put(written, Int4In(id).val,
                                   [name |-> req[s].body.name,
                                    price |-> req[s].body.price,
                                    by |-> "PUT"])
                 /\ UNCHANGED <<seq, deleted, issued>>

\* func (g *GoPOS) deleteItem(c *gin.Context)
deleteItem(s) ==
    /\ req[s].pc = "recv"
    /\ race' = Ran(s)
    /\ UNCHANGED harness
    /\ req[s].method = "DELETE"
    /\ LET id == req[s].path
           result == SqlDelete(items, id)
       IN
       IF result.err
       THEN /\ req' = [req EXCEPT ![s] =
                   Respond(s, StatusInternalServerError, "error", ZeroItem, 0)]
            /\ Untouched
       ELSE IF NotFound(result.rows)
       THEN /\ req' = [req EXCEPT ![s] =
                          Respond(s, StatusNotFound, "error", ZeroItem, 0)]
            /\ Untouched
       ELSE /\ items' = result.table
            /\ req' = [req EXCEPT ![s] =
                          Respond(s, StatusNoContent, "empty", ZeroItem,
                                  result.rows)]
            /\ written' = Drop(written, Int4In(id).val)
            /\ deleted' = deleted \cup {Int4In(id).val}
            /\ UNCHANGED <<seq, issued>>

\* func (g *GoPOS) getItem(c *gin.Context)
getItem(s) ==
    /\ req[s].pc = "recv"
    /\ race' = Ran(s)
    /\ UNCHANGED harness
    /\ req[s].method = "GET"
    /\ LET id == req[s].path
           r == SqlSelect(items, id)
       IN req' = [req EXCEPT ![s] =
              IF r.err
              THEN IF r.noRows
                   THEN Respond(s, StatusNotFound, "error", ZeroItem, 0)
                   ELSE Respond(s, StatusInternalServerError, "error",
                                ZeroItem, 0)
              ELSE Respond(s, StatusOK, "item", r.item, 1)]
    /\ Untouched

Next ==
    \E s \in Conns :
        \/ Request(s)
        \/ createItem(s)
        \/ updateItem(s)
        \/ deleteItem(s)
        \/ getItem(s)

Spec == Init /\ [][Next]_vars

\* ----------------------------------------------------------- the harness

\* log.Fatalf: the message is logged and the process exits with status 1, at
\* once and without running deferred calls.
Fatalf(why) ==
    /\ exit' = why
    /\ hpc' = "exited"

At(label) == hpc = label /\ exit = "running"

Goto(label) == hpc' = label

\* pool, err := dockertest.NewPool("")
NewPool ==
    /\ At("NewPool")
    /\ \E err \in BOOLEAN :
          IF err
          THEN Fatalf("fatal: pool")
          ELSE Goto("createNetwork") /\ UNCHANGED exit
    /\ UNCHANGED <<api, tries, i, attempts, slept, reached, waitErr, closer,
                   closed>>

\* func createNetwork: the network is looked up by name and created when the
\* listing does not hold it.
createNetwork ==
    /\ At("createNetwork")
    /\ \E outcome \in {"list failed", "found", "created", "create failed"} :
          IF outcome \in {"found", "created"}
          THEN /\ reached' = reached \cup {"network"}
               /\ Goto("createPostgresDB")
               /\ UNCHANGED exit
          ELSE /\ Fatalf("fatal: network")
               /\ UNCHANGED reached
    /\ UNCHANGED <<api, tries, i, attempts, slept, waitErr, closer, closed>>

\* func createPostgresDB: pool.RunWithOptions of postgres:latest.
createPostgresDB ==
    /\ At("createPostgresDB")
    /\ \E err \in BOOLEAN :
          IF err
          THEN /\ Fatalf("fatal: postgres")
               /\ UNCHANGED <<reached, tries>>
          ELSE /\ reached' = reached \cup {"postgres"}
               /\ tries' = 0
               /\ Goto("testDBConnectivity")
               /\ UNCHANGED exit
    /\ UNCHANGED <<api, i, attempts, slept, waitErr, closer, closed>>

\* pool.Retry: the operation is tried again while it fails and time is left.
RetryAgain(n) == n < MaxRetry

\* func testDBConnectivity: one round of the retried sql.Open and db.Ping.
testDBConnectivity ==
    /\ At("testDBConnectivity")
    /\ RetryAgain(tries)
    /\ \E err \in BOOLEAN :
          IF err
          THEN /\ tries' = tries + 1
               /\ UNCHANGED <<reached, hpc>>
          ELSE /\ reached' = reached \cup {"ping"}
               /\ tries' = 0
               /\ Goto("MkdirTemp")
    /\ UNCHANGED <<api, i, attempts, slept, waitErr, closer, closed, exit>>

\* func testDBConnectivity: pool.Retry gave up: log.Fatalf.
testDBConnectivityGivesUp ==
    /\ At("testDBConnectivity")
    /\ ~RetryAgain(tries)
    /\ Fatalf("fatal: ping gave up")
    /\ UNCHANGED <<api, tries, i, attempts, slept, reached, waitErr, closer,
                   closed>>

\* tempDir, err := os.MkdirTemp("", "migrations"), then copyDir, whose error
\* is dropped.
MkdirTemp ==
    /\ At("MkdirTemp")
    /\ \E err \in BOOLEAN :
          IF err
          THEN Fatalf("fatal: temp dir")
          ELSE Goto("createMigration") /\ UNCHANGED exit
    /\ UNCHANGED <<api, tries, i, attempts, slept, reached, waitErr, closer,
                   closed>>

\* func createMigration: pool.RunWithOptions of migrate/migrate.
createMigration ==
    /\ At("createMigration")
    /\ \E err \in BOOLEAN :
          IF err
          THEN /\ Fatalf("fatal: migrate container")
               /\ UNCHANGED <<reached, tries>>
          ELSE /\ reached' = reached \cup {"migrate container"}
               /\ tries' = 0
               /\ Goto("migrateExec")
               /\ UNCHANGED exit
    /\ UNCHANGED <<api, i, attempts, slept, waitErr, closer, closed>>

\* What the retried function hands to pool.Retry after dbmigrate.Exec, which
\* returns the command's exit code and an error: _, err := ...; return err.
ExecFailed(exitCode, err) == err

\* func createMigration: one round of the retried dbmigrate.Exec of
\* "migrate ... up 2".  Exec's error tells that the command could not be run;
\* how the migration went is its exit code.
migrateExec ==
    /\ At("migrateExec")
    /\ RetryAgain(tries)
    /\ \E r \in {[exitCode |-> -1, err |-> TRUE],
                 [exitCode |-> 0, err |-> FALSE],
                 [exitCode |-> 1, err |-> FALSE]} :
          IF ExecFailed(r.exitCode, r.err)
          THEN /\ tries' = tries + 1
               /\ UNCHANGED <<reached, hpc>>
          ELSE /\ reached' = reached \cup
                      (IF r.exitCode = 0 THEN {"migration"} ELSE {})
               /\ tries' = 0
               /\ Goto("createAppContainer")
    /\ UNCHANGED <<api, i, attempts, slept, waitErr, closer, closed, exit>>

\* func createMigration: pool.Retry gave up: log.Fatalf.
migrateExecGivesUp ==
    /\ At("migrateExec")
    /\ ~RetryAgain(tries)
    /\ Fatalf("fatal: migration gave up")
    /\ UNCHANGED <<api, tries, i, attempts, slept, reached, waitErr, closer,
                   closed>>

\* func createAppContainer, whose error is dropped; then
\* appresource.GetPort("8000/tcp"), a nil dereference when the container did
\* not start; then TestMain starts the goroutine that waits for the service.
createAppContainer ==
    /\ At("createAppContainer")
    /\ \E err \in BOOLEAN :
          IF err
          THEN /\ exit' = "panic: nil appresource"
               /\ Goto("exited")
               /\ UNCHANGED <<reached, i>>
          ELSE /\ reached' = reached \cup {"app"}
               /\ i' = 0
               /\ Goto("waitForServiceToBeReady")
               /\ UNCHANGED exit
    /\ UNCHANGED <<api, tries, attempts, slept, waitErr, closer, closed>>

\* The loop bound off by one: i <= limit.
LoopContinuesOffByOne(n) == n <= limit

\* for i := 0; i < limit; i++
LoopContinues(n) == n < limit

\* func waitForServiceToBeReady: one round of the loop.  client.Do fails, or
\* answers 200, or answers another status.
waitForServiceToBeReady ==
    /\ At("waitForServiceToBeReady")
    /\ LoopContinues(i)
    /\ attempts' = attempts + 1
    /\ \E resp \in {"error", "200", "503"} :
          CASE resp = "error" ->
                 /\ slept' = slept + 1
                 /\ i' = i + 1
                 /\ UNCHANGED <<hpc, waitErr, reached>>
            [] resp = "200" ->
                 /\ waitErr' = "nil"
                 /\ reached' = reached \cup {"health"}
                 /\ Goto("ready")
                 /\ UNCHANGED <<slept, i>>
            [] OTHER ->
                 /\ i' = i + 1
                 /\ UNCHANGED <<hpc, waitErr, reached, slept>>
    /\ UNCHANGED <<api, tries, closer, closed, exit>>

\* func waitForServiceToBeReady: the loop has run out: return fmt.Errorf(...).
waitForServiceToBeReadyGivesUp ==
    /\ At("waitForServiceToBeReady")
    /\ ~LoopContinues(i)
    /\ waitErr' = "error"
    /\ Goto("ready")
    /\ UNCHANGED <<api, tries, i, attempts, slept, reached, closer, closed,
                   exit>>

\* TestMain's goroutine after the wait: on an error it calls Close and
\* panics; otherwise wg.Done() lets TestMain go on to m.Run().
goroutine ==
    /\ At("ready")
    /\ IF waitErr = "error"
       THEN /\ closer' = "goroutine"
            /\ Goto("Close db")
       ELSE /\ Goto("m.Run")
            /\ UNCHANGED closer
    /\ UNCHANGED <<api, tries, i, attempts, slept, reached, waitErr, closed,
                   exit>>

\* result := m.Run(); then TestMain calls Close.
Run ==
    /\ At("m.Run")
    /\ \E result \in {0, 1} :
          /\ reached' = reached \cup {"tests"} \cup
                 (IF result = 0 THEN {"passed"} ELSE {})
          /\ closer' = "TestMain"
          /\ Goto("Close db")
    /\ UNCHANGED <<api, tries, i, attempts, slept, waitErr, closed, exit>>

\* A Close that only logs a failed step and goes on to the next one.
CloseStepLogsOnly(label, what, next) ==
    /\ At(label)
    /\ \E err \in BOOLEAN :
          /\ closed' = IF err THEN closed ELSE Append(closed, what)
          /\ Goto(next)
          /\ UNCHANGED exit
    /\ UNCHANGED <<api, tries, i, attempts, slept, reached, waitErr, closer>>

\* func (l LocalTestContainer) Close: one step of it, closing what, or
\* log.Fatalf when that fails.
CloseStep(label, what, next) ==
    /\ At(label)
    /\ \E err \in BOOLEAN :
          IF err
          THEN /\ Fatalf("fatal: close")
               /\ UNCHANGED closed
          ELSE /\ closed' = Append(closed, what)
               /\ Goto(next)
               /\ UNCHANGED exit
    /\ UNCHANGED <<api, tries, i, attempts, slept, reached, waitErr, closer>>

\* err := l.dbcontainer.Close()
CloseDb == CloseStep("Close db", "dbcontainer", "Close app")

\* err = l.appcontainer.Close()
CloseApp == CloseStep("Close app", "appcontainer", "Close network")

\* l.pool.Client.RemoveNetwork(l.network)
RemoveNetwork == CloseStep("Close network", "network", "closed")

\* Close has returned: the goroutine panics, TestMain calls os.Exit(result).
Exit ==
    /\ At("closed")
    /\ exit' = IF closer = "goroutine" THEN "panic: not ready"
               ELSE IF "passed" \in reached THEN "exit 0" ELSE "exit 1"
    /\ Goto("exited")
    /\ UNCHANGED <<api, tries, i, attempts, slept, reached, waitErr, closer,
                   closed>>

HarnessNext ==
    \/ NewPool
    \/ createNetwork
    \/ createPostgresDB
    \/ testDBConnectivity
    \/ testDBConnectivityGivesUp
    \/ MkdirTemp
    \/ createMigration
    \/ migrateExec
    \/ migrateExecGivesUp
    \/ createAppContainer
    \/ waitForServiceToBeReady
    \/ waitForServiceToBeReadyGivesUp
    \/ goroutine
    \/ Run
    \/ CloseDb
    \/ CloseApp
    \/ RemoveNetwork
    \/ Exit

HarnessSpec == Init /\ [][HarnessNext]_vars

\* ------------------------------------------------------- claims: handlers

\* The step in which the handler of connection s runs and answers.
Handles(s, method) ==
    /\ req[s].pc = "recv"
    /\ req[s].method = method
    /\ req'[s].pc = "done"

\* The row id the path parameter of s's request names (0 when it names none).
PathId(s) == Int4In(req[s].path).val

\* The name and price a request body carries.
Sent(body) == Row(body.name, body.price)

Answered(s, method, status) ==
    /\ req[s].pc = "done"
    /\ req[s].method = method
    /\ req[s].status = status

\* C1: a GET /items/k whose handler runs when k is an id a POST was answered
\* 201 with, and no PUT or DELETE has changed row k since, answers 200 with an
\* Item carrying the name and the price that were posted.
C1_PostThenGet ==
    [][\A s \in Conns :
         (/\ Handles(s, "GET")
          /\ PathId(s) \in DOMAIN written
          /\ written[PathId(s)].by = "POST")
         => /\ req'[s].status = StatusOK
            /\ req'[s].kind = "item"
            /\ req'[s].resp.Name = written[PathId(s)].name
            /\ req'[s].resp.Price = written[PathId(s)].price]_vars

C1_Witness ==
    \E s \in Conns :
        /\ Answered(s, "GET", StatusOK)
        /\ PathId(s) \in DOMAIN written
        /\ written[PathId(s)].by = "POST"
        /\ written[PathId(s)].name = "Widget2"
        /\ req[s].resp.Name = "Widget2"
        /\ req[s].resp.Price = 150

\* C2: a PUT /items/k with a body that binds, on an id k that has a row,
\* leaves the table with the same ids, row k carrying the body's name and price
\* and every other row as it was; a GET /items/k whose handler runs before any
\* later PUT or DELETE changes row k answers 200 with that name and price.
C2_PutOverwrites ==
    [][\A s \in Conns :
         /\ (/\ Handles(s, "PUT")
             /\ ~ShouldBindJSON(req[s].body).err
             /\ PathId(s) \in DOMAIN items)
            => /\ DOMAIN items' = DOMAIN items
               /\ items'[PathId(s)] = Sent(req[s].body)
               /\ \A j \in DOMAIN items \ {PathId(s)} : items'[j] = items[j]
         /\ (/\ Handles(s, "GET")
             /\ PathId(s) \in DOMAIN written
             /\ written[PathId(s)].by = "PUT")
            => /\ req'[s].status = StatusOK
               /\ req'[s].resp.ID = PathId(s)
               /\ req'[s].resp.Name = written[PathId(s)].name
               /\ req'[s].resp.Price = written[PathId(s)].price]_vars

\* Row 1 was posted as Widget and put as Widget2; a GET has read it back while
\* row 2 stands as posted.
C2_Witness ==
    \E s \in Conns :
        /\ Answered(s, "GET", StatusOK)
        /\ req[s].path = "1"
        /\ 1 \in DOMAIN written
        /\ written[1].by = "PUT"
        /\ req[s].resp = Item(1, "Widget2", 150)
        /\ 2 \in DOMAIN items

\* C3: a DELETE /items/k on an id k that has a row answers 204 and removes the
\* row, and from then on every GET /items/k answers 404, whatever requests
\* come between (no later POST brings the id back).
C3_DeleteThenGet ==
    [][\A s \in Conns :
         /\ (Handles(s, "DELETE") /\ PathId(s) \in DOMAIN items)
            => /\ req'[s].status = StatusNoContent
               /\ PathId(s) \notin DOMAIN items'
         /\ (Handles(s, "GET") /\ PathId(s) \in deleted)
            => req'[s].status = StatusNotFound
         /\ \A k \in deleted : k \notin DOMAIN items']_vars

\* Row 1 was deleted, a POST came after it, and a GET /items/1 answered 404.
C3_Witness ==
    \E s \in Conns :
        /\ Answered(s, "GET", StatusNotFound)
        /\ req[s].path = "1"
        /\ 1 \in deleted
        /\ 2 \in issued
        /\ 2 \in DOMAIN items

\* C4: GET, PUT and DELETE on /items/:id with a path id that matches no row of
\* the table (the PUT body binding) answer 404, never 500.
C4_AbsentIs404 ==
    [][\A s \in Conns : \A method \in {"GET", "PUT", "DELETE"} :
         (/\ Handles(s, method)
          /\ method = "PUT" => ~ShouldBindJSON(req[s].body).err
          /\ \/ Int4In(req[s].path).err
             \/ PathId(s) \notin DOMAIN items)
         => req'[s].status = StatusNotFound]_vars

\* C5: a POST /items whose body has no name key, or whose price is no integer,
\* answers 400 and leaves the items table as it was.
C5_PostRejectsIncomplete ==
    [][\A s \in Conns :
         (/\ Handles(s, "POST")
          /\ req[s].body.syntax
          /\ \/ "name" \notin req[s].body.fields
             \/ req[s].body.priceTok # "int")
         => /\ req'[s].status = StatusBadRequest
            /\ items' = items]_vars

\* C6: every POST /items answered 201 carries an id that no earlier 201
\* carried, whether the POSTs ran one after the other or concurrently, and
\* whether or not rows were deleted in between.
C6_DistinctIds ==
    [][\A s \in Conns :
         (Handles(s, "POST") /\ req'[s].status = StatusCreated)
         => /\ req'[s].resp.ID \notin issued
            /\ req'[s].resp.ID \notin deleted
            /\ req'[s].resp.ID \notin DOMAIN items
            /\ req'[s].resp.ID \in DOMAIN items']_vars

\* Two concurrent POSTs were answered 201, with different ids.
C6_Witness ==
    /\ race.follow # "none"
    /\ \A s \in Conns : Answered(s, "POST", StatusCreated)
    /\ req["c1"].resp.ID # req["c2"].resp.ID
    /\ issued = {1, 2}

\* C7: a PUT /items/k on an id k that has a row, with a body carrying only
\* name and price, answers 200 with an Item whose id is the path id k and whose
\* name and price are the body's.
C7_PutEchoesId ==
    [][\A s \in Conns :
         (/\ Handles(s, "PUT")
          /\ req[s].body \in WellFormed
          /\ PathId(s) \in DOMAIN items)
         => /\ req'[s].status = StatusOK
            /\ req'[s].resp.ID = PathId(s)
            /\ req'[s].resp.Name = req[s].body.name
            /\ req'[s].resp.Price = req[s].body.price]_vars

\* The step in which the handler of s runs next after the handler of t, which
\* ran while s's request was in flight and changed row k.
Follows(s, t, k) ==
    /\ t = Other(s)
    /\ race = [lead |-> t, follow |-> "none"]
    /\ req[t].pc = "done"
    /\ req[t].rows = 1
    /\ req[t].path = req[s].path
    /\ req[s].pc = "recv"
    /\ req'[s].pc = "done"
    /\ k = PathId(s)

\* C8: of two concurrent requests on an id k that has a row, the statements
\* run one after the other and the later one decides.  Two PUTs (bodies that
\* bind) both answer 200 and row k ends with the name and price of the later
\* body, both from that one body.  A PUT and a DELETE end with row k gone and
\* the DELETE answered 204; the PUT answers 200 when its UPDATE ran first and
\* 404 when it ran second.
C8_LastWriteWins ==
    [][\A s \in Conns : \A t \in Conns : \A k \in 1..MaxId :
         Follows(s, t, k) =>
           /\ (/\ req[t].method = "PUT"
               /\ req[s].method = "PUT"
               /\ ~ShouldBindJSON(req[s].body).err)
              => /\ req[t].status = StatusOK
                 /\ req'[s].status = StatusOK
                 /\ k \in DOMAIN items'
                 /\ items'[k] = Sent(req[s].body)
           /\ (req[t].method = "PUT" /\ req[s].method = "DELETE")
              => /\ req[t].status = StatusOK
                 /\ req'[s].status = StatusNoContent
                 /\ k \notin DOMAIN items'
           /\ (/\ req[t].method = "DELETE"
               /\ req[s].method = "PUT"
               /\ ~ShouldBindJSON(req[s].body).err)
              => /\ req[t].status = StatusNoContent
                 /\ req'[s].status = StatusNotFound
                 /\ k \notin DOMAIN items']_vars

\* A PUT and a DELETE on row 1 ran concurrently, the DELETE first: it answered
\* 204, the PUT 404, and the row is gone.
C8_Witness ==
    \E s \in Conns :
        /\ race = [lead |-> Other(s), follow |-> s]
        /\ Answered(Other(s), "DELETE", StatusNoContent)
        /\ Answered(s, "PUT", StatusNotFound)
        /\ req[s].path = "1"
        /\ req[Other(s)].path = "1"
        /\ 1 \notin DOMAIN items

\* -------------------------------------------------------- claims: harness

\* The steps of the bring-up succeed in the order of the code: network,
\* Postgres container, database ping, migration container, app container,
\* health check, tests.
BringUpOrder ==
    /\ "postgres" \in reached => "network" \in reached
    /\ "ping" \in reached => "postgres" \in reached
    /\ "migrate container" \in reached => "ping" \in reached
    /\ "migration" \in reached => "migrate container" \in reached
    /\ "app" \in reached => "migrate container" \in reached
    /\ "health" \in reached => "app" \in reached
    /\ "tests" \in reached => "health" \in reached

\* A retry that gave up ended the process before the app container started.
GiveUpIsFatal ==
    exit \in {"fatal: ping gave up", "fatal: migration gave up"}
        => /\ hpc = "exited"
           /\ "app" \notin reached

\* C9: the stack comes up in a fixed order: the network is found or created,
\* then the Postgres container is started, then a database ping succeeds, then
\* the migration container is run and its migration succeeds, then the app
\* container is started; no test runs before a GET /health has answered 200;
\* and when the ping retry or the migration retry gives up, the process ends
\* before the app container is started.
C9_BringUp ==
    /\ BringUpOrder
    /\ "app" \in reached => "migration" \in reached
    /\ GiveUpIsFatal

\* What holds of waitForServiceToBeReady in every state: it sends at most
\* limit requests; it has returned nil exactly when a request was answered
\* 200; it has returned an error only after limit requests none of which was
\* answered 200; and while it runs no request has been answered 200.
WaitState ==
    /\ attempts <= limit
    /\ waitErr = "nil" <=> "health" \in reached
    /\ waitErr = "error" <=> (/\ hpc # "waitForServiceToBeReady"
                              /\ attempts = limit
                              /\ "health" \notin reached)
    /\ hpc = "waitForServiceToBeReady" => waitErr = "pending"

\* What holds of every step: a round of the loop sends one request, so the
\* function cannot stay in the loop for more than limit steps; the request
\* answered 200 is the last one sent.
WaitStep ==
    /\ (hpc = "waitForServiceToBeReady" /\ hpc' = "waitForServiceToBeReady")
          => attempts' = attempts + 1
    /\ (hpc = "waitForServiceToBeReady" /\ attempts = limit)
          => hpc' # "waitForServiceToBeReady"
    /\ "health" \in reached => attempts' = attempts
    /\ ("health" \notin reached /\ "health" \in reached')
          => /\ waitErr' = "nil"
             /\ hpc' # "waitForServiceToBeReady"

\* C10: waitForServiceToBeReady ends after at most 30 GET /health requests: it
\* returns nil at the first request answered 200 and sends no other, and it
\* returns an error exactly when none of 30 requests was answered 200.
C10_WaitForService == [][WaitState' /\ WaitStep]_vars

\* The wait gave up after 30 requests, some failed in transport (slept after)
\* and some answered with another status.
C10_Witness ==
    /\ waitErr = "error"
    /\ attempts = 30
    /\ slept = 12
    /\ hpc = "ready"

\* What Close closes, in the order of its statements.
CloseOrder == <<"dbcontainer", "appcontainer", "network">>

IsPrefix(p, q) ==
    /\ Len(p) <= Len(q)
    /\ \A n \in 1..Len(p) : p[n] = q[n]

\* The ends of the process once CreateLocalTestContainer has returned.
EndedAfterBringUp == hpc = "exited" /\ "app" \in reached

\* What holds of Close in every state.  It is called by the goroutine exactly
\* when the wait returned an error, and by TestMain only after m.Run; before
\* it is called nothing is closed; what it has closed is a beginning of
\* CloseOrder, so nothing is closed twice or out of order; once it has returned
\* all three are closed; a process that ended after the bring-up called Close,
\* and ended either in a failed step with the later steps not done, or after
\* Close returned.
CloseState ==
    /\ closer = "goroutine" => waitErr = "error"
    /\ closer = "TestMain" => waitErr = "nil" /\ "tests" \in reached
    /\ closer = "none" => closed = <<>>
    /\ IsPrefix(closed, CloseOrder)
    /\ hpc = "closed" => closed = CloseOrder
    /\ EndedAfterBringUp =>
          /\ closer # "none"
          /\ \/ exit = "fatal: close" /\ Len(closed) < Len(CloseOrder)
             \/ /\ exit = (IF closer = "goroutine" THEN "panic: not ready"
                           ELSE IF "passed" \in reached THEN "exit 0"
                           ELSE "exit 1")
                /\ closed = CloseOrder

\* What holds of every step.  Close is called once: its caller never changes
\* and a call starts with nothing closed.  A step that fails ends the process
\* and closes nothing.  Only the process that ran the tests or gave up the
\* wait ends by exit or panic after the bring-up.
CloseStepwise ==
    /\ closer # "none" => closer' = closer
    /\ (closer = "none" /\ closer' # "none")
          => /\ closed = <<>>
             /\ hpc' = "Close db"
             /\ "app" \in reached
    /\ (exit = "running" /\ exit' = "fatal: close")
          => /\ closed' = closed
             /\ hpc' = "exited"
    /\ hpc = "exited" => UNCHANGED harness

\* C11: on every path by which TestMain ends after CreateLocalTestContainer
\* succeeded (the wait for the service failed, or m.Run returned), Close is
\* called exactly once before the process ends; a Close that returns has closed
\* the database container, then the app container, then removed the network,
\* in that order; a step that fails ends the process with the later steps not
\* done.
C11_CloseOnce == [][CloseState' /\ CloseStepwise]_vars

\* The wait gave up, the goroutine called Close, the database container was
\* closed, and closing the app container failed: the network is still there.
C11_Witness ==
    /\ exit = "fatal: close"
    /\ closer = "goroutine"
    /\ closed = <<"dbcontainer">>
    /\ hpc = "exited"

====
